---- MODULE Spec2Model ----
(***************************************************************************)
(* styrene/cmdline.py: the command line driver (main) and the build        *)
(* lifecycle of one bundle spec (process_spec_file).                       *)
(*                                                                         *)
(* The program is single threaded; pc is the position of its one thread.   *)
(* Calls into collaborators (optparse, configparser, NativeBundle,         *)
(* fix_tree_perms, tempfile, shutil) either return or raise an Exception;  *)
(* which of the two is a nondeterministic choice of the step.              *)
(***************************************************************************)
EXTENDS Integers, Sequences, FiniteSets, TLC

\* ---------------------------------------------------------------- bounds
MaxArgs == 2          \* most spec files on one command line
MaxArtifacts == 2     \* most paths write_distributables returns

\* ---------------------------------------------------------------- values
None == "None"        \* Python's None
Absent == "absent"    \* no file at this path

\* optparse's outcomes for sys.argv[1:]
ArgvKinds == {"ok", "help", "bad_option"}

\* values of options.output_dir: not given, given as "", given as a directory
OutputDirs == {None, "", "out"}

Options == [output_dir : OutputDirs, build_zip : BOOLEAN, build_exe : BOOLEAN]

\* os.getcwd()
getcwd == "."

\* names tempfile.mkdtemp(prefix="styrene") may return
TmpDirNames == {"styrene1", "styrene2", "styrene3", "styrene4", "styrene5"}

\* tempfile.mkdtemp: a directory that did not exist before
mkdtemp(existing) == CHOOSE d \in TmpDirNames : d \notin existing

\* paths of artifacts, relative to the directory the engine builds in
RelPaths == {<<"x.zip">>, <<"x.exe">>, <<"sub", "x.zip">>}

\* file contents
Bytes == {"b1", "b2"}

\* os.path.basename
basename(p) == p[Len(p)]

\* os.path.join(dir, name)
join(dir, name) == <<dir, name>>

BaseNames == {basename(r) : r \in RelPaths}

Dirs == {getcwd, "out"} \cup TmpDirNames

\* every path of the modelled file system
AllPaths == {<<d>> \o r : d \in Dirs, r \in RelPaths}
              \cup {join(d, n) : d \in Dirs, n \in BaseNames}

\* Python truthiness of options.output_dir
Truthy(v) == v # None /\ v # ""

Range(s) == {s[j] : j \in 1..Len(s)}

SeqsUpTo(S, n) == UNION {[1..m -> S] : m \in 0..n}

VARIABLES
  pc,             \* position of the thread
  argv,           \* what optparse makes of sys.argv[1:]
  args,           \* the positional arguments: the spec files
  options,        \* the parsed options
  i,              \* index in args of spec_file, the loop variable of main
  exit_status,    \* <<>> while running, <<n>> after sys.exit(n) or return
  handlers,       \* number of handlers attached to the root logger
  log,            \* the records logged by this module
  events,         \* what main did to which spec file, in order
  fs,             \* the file system: path -> content or Absent
  dirs,           \* the directories that exist, other than the cwd
  output_dir,     \* process_spec_file's local output_dir
  tmp_dir,        \* process_spec_file's local tmp_dir (None before mkdtemp)
  written,        \* process_spec_file's local written
  k,              \* index in written of distfile, the loop variable
  exc,            \* the exception in flight (None when there is none)
  body_exc,       \* the exception the try body raised (None when none)
  engine_calls,   \* calls of the bundle made by this process_spec_file
  cleanup_calls,  \* cleanup steps attempted by this process_spec_file
  copies,         \* indexes in written copied by this process_spec_file
  fs0,            \* the file system when process_spec_file was called
  dirs0,          \* the directories when process_spec_file was called
  orig            \* the file system right after write_distributables

mainvars == <<argv, args, options, i, exit_status, handlers, log, events>>
fsvars == <<fs, dirs>>
localvars == <<output_dir, tmp_dir, written, k, exc, body_exc>>
histvars == <<engine_calls, cleanup_calls, copies, fs0, dirs0, orig>>
vars == <<pc, mainvars, fsvars, localvars, histvars>>

EmptyFs == [p \in AllPaths |-> Absent]

\* files that may lie in the current directory before the run
InitialFs == {EmptyFs, [EmptyFs EXCEPT ![join(getcwd, "x.zip")] = "old"]}

Init ==
  /\ pc = "parse_args"
  /\ argv \in ArgvKinds
  /\ args \in {[j \in 1..n |-> j] : n \in 0..MaxArgs}
  /\ options \in Options
  /\ i = 0
  /\ exit_status = <<>>
  /\ handlers = 0
  /\ log = <<>>
  /\ events = <<>>
  /\ fs \in InitialFs
  /\ dirs = {}
  /\ output_dir = None
  /\ tmp_dir = None
  /\ written = <<>>
  /\ k = 0
  /\ exc = None
  /\ body_exc = None
  /\ engine_calls = <<>>
  /\ cleanup_calls = <<>>
  /\ copies = <<>>
  /\ fs0 = fs
  /\ dirs0 = {}
  /\ orig = fs

\* sys.exit(n)
sys_exit(n) ==
  /\ pc' = "exited"
  /\ exit_status' = <<n>>

Event(e, f) == [ev |-> e, file |-> f]
Record(l, f) == [level |-> l, file |-> f]

\* ------------------------------------------------------------------ main

\* parser.parse_args, and the check for no positional arguments
ParseArgs ==
  /\ pc = "parse_args"
  /\ IF argv = "help" THEN sys_exit(0)
     ELSE IF argv = "bad_option" THEN sys_exit(2)
     ELSE IF Len(args) = 0 THEN sys_exit(1)
     ELSE pc' = "logging" /\ UNCHANGED exit_status
  /\ UNCHANGED <<argv, args, options, i, handlers, log, events>>
  /\ UNCHANGED <<fsvars, localvars, histvars>>

\* Initialize logging
InitLogging ==
  /\ pc = "logging"
  /\ handlers' = handlers + 1
  /\ i' = 1
  /\ pc' = "for"
  /\ UNCHANGED <<argv, args, options, exit_status, log, events>>
  /\ UNCHANGED <<fsvars, localvars, histvars>>

\* for spec_file in args: spec.read(spec_file) returns
ReadSpecOk ==
  /\ pc = "for"
  /\ i <= Len(args)
  /\ events' = Append(events, Event("read_ok", args[i]))
  /\ pc' = "call"
  /\ UNCHANGED <<argv, args, options, i, exit_status, handlers, log>>
  /\ UNCHANGED <<fsvars, localvars, histvars>>

\* a handler that logs the parse error and goes on to the build
ReadSpecFail_goes_on ==
  /\ pc = "for"
  /\ i <= Len(args)
  /\ events' = Append(events, Event("read_fail", args[i]))
  /\ log' = Append(log, Record("ERROR", args[i]))
  /\ pc' = "call"
  /\ UNCHANGED <<argv, args, options, i, exit_status, handlers>>
  /\ UNCHANGED <<fsvars, localvars, histvars>>

\* spec.read(spec_file) raises: logger.exception, sys.exit(2)
ReadSpecFail ==
  /\ pc = "for"
  /\ i <= Len(args)
  /\ events' = Append(events, Event("read_fail", args[i]))
  /\ log' = Append(log, Record("ERROR", args[i]))
  /\ sys_exit(2)
  /\ UNCHANGED <<argv, args, options, i, handlers>>
  /\ UNCHANGED <<fsvars, localvars, histvars>>

\* process_spec_file(spec, options) is called: its locals are fresh
Call ==
  /\ pc = "call"
  /\ events' = Append(events, Event("call", args[i]))
  /\ output_dir' = None
  /\ tmp_dir' = None
  /\ written' = <<>>
  /\ k' = 0
  /\ exc' = None
  /\ body_exc' = None
  /\ engine_calls' = <<>>
  /\ cleanup_calls' = <<>>
  /\ copies' = <<>>
  /\ fs0' = fs
  /\ dirs0' = dirs
  /\ orig' = fs
  /\ pc' = "construct"
  /\ UNCHANGED <<argv, args, options, i, exit_status, handlers, log>>
  /\ UNCHANGED fsvars

\* process_spec_file returned: the loop goes on to the next spec file
Return ==
  /\ pc = "returned"
  /\ events' = Append(events, Event("return", args[i]))
  /\ i' = i + 1
  /\ pc' = "for"
  /\ UNCHANGED <<argv, args, options, exit_status, handlers, log>>
  /\ UNCHANGED <<fsvars, localvars, histvars>>

\* a handler that logs the error and goes on to the next spec file
Except_goes_on ==
  /\ pc = "raised"
  /\ events' = Append(events, Event("raise", args[i]))
  /\ log' = Append(log, Record("ERROR", args[i]))
  /\ i' = i + 1
  /\ pc' = "for"
  /\ UNCHANGED <<argv, args, options, exit_status, handlers>>
  /\ UNCHANGED <<fsvars, localvars, histvars>>

\* a handler that exits with the status of a usage error
Except_exit_1 ==
  /\ pc = "raised"
  /\ events' = Append(events, Event("raise", args[i]))
  /\ log' = Append(log, Record("ERROR", args[i]))
  /\ sys_exit(1)
  /\ UNCHANGED <<argv, args, options, i, handlers>>
  /\ UNCHANGED <<fsvars, localvars, histvars>>

\* process_spec_file raised: logger.exception, sys.exit(2)
Except ==
  /\ pc = "raised"
  /\ events' = Append(events, Event("raise", args[i]))
  /\ log' = Append(log, Record("ERROR", args[i]))
  /\ sys_exit(2)
  /\ UNCHANGED <<argv, args, options, i, handlers>>
  /\ UNCHANGED <<fsvars, localvars, histvars>>

\* the loop is exhausted: main returns, the process ends with status 0
MainReturn ==
  /\ pc = "for"
  /\ i > Len(args)
  /\ pc' = "exited"
  /\ exit_status' = <<0>>
  /\ UNCHANGED <<argv, args, options, i, handlers, log, events>>
  /\ UNCHANGED <<fsvars, localvars, histvars>>

\* ------------------------------------------------------ process_spec_file

EngineCall(op, dir) == [op |-> op, dir |-> dir]

\* an engine call or library call raises: outside the try block the
\* exception leaves process_spec_file at once
Raise(e) ==
  /\ exc' = e
  /\ pc' = "raised"

\* bundle = NativeBundle(spec)
Construct ==
  /\ pc = "construct"
  /\ engine_calls' = Append(engine_calls, EngineCall("NativeBundle", None))
  /\ \/ pc' = "check_deps" /\ UNCHANGED exc
     \/ Raise("NativeBundle")
  /\ UNCHANGED <<mainvars, fsvars>>
  /\ UNCHANGED <<output_dir, tmp_dir, written, k, body_exc>>
  /\ UNCHANGED <<cleanup_calls, copies, fs0, dirs0, orig>>

\* bundle.check_runtime_dependencies()
CheckDeps ==
  /\ pc = "check_deps"
  /\ engine_calls' =
       Append(engine_calls, EngineCall("check_runtime_dependencies", None))
  /\ \/ pc' = "mode" /\ UNCHANGED exc
     \/ Raise("check_runtime_dependencies")
  /\ UNCHANGED <<mainvars, fsvars>>
  /\ UNCHANGED <<output_dir, tmp_dir, written, k, body_exc>>
  /\ UNCHANGED <<cleanup_calls, copies, fs0, dirs0, orig>>

\* the test inverted: "if output_dir"
UseTmpDir_inverted(opts) == Truthy(opts.output_dir)

\* if not output_dir:
UseTmpDir(opts) == ~Truthy(opts.output_dir)

\* the guard without its "not"
NothingToBuild_inverted(opts) == opts.build_zip \/ opts.build_exe

\* if not (options.build_zip or options.build_exe):
NothingToBuild(opts) == ~(opts.build_zip \/ opts.build_exe)

\* the two warnings, and return
NoOp ==
  /\ pc = "mode"
  /\ UseTmpDir(options)
  /\ NothingToBuild(options)
  /\ output_dir' = options.output_dir
  /\ log' = log \o <<Record("WARNING", args[i]), Record("WARNING", args[i])>>
  /\ pc' = "returned"
  /\ UNCHANGED <<argv, args, options, i, exit_status, handlers, events>>
  /\ UNCHANGED <<fsvars, histvars>>
  /\ UNCHANGED <<tmp_dir, written, k, exc, body_exc>>

\* output_dir = os.getcwd(); tmp_dir = tempfile.mkdtemp(prefix="styrene")
MkTemp ==
  /\ pc = "mode"
  /\ UseTmpDir(options)
  /\ ~NothingToBuild(options)
  /\ output_dir' = getcwd
  /\ \/ /\ tmp_dir' = mkdtemp(dirs)
        /\ dirs' = dirs \cup {tmp_dir'}
        /\ pc' = "write_tmp"
        /\ UNCHANGED exc
     \/ /\ Raise("mkdtemp")
        /\ UNCHANGED <<tmp_dir, dirs>>
  /\ UNCHANGED <<mainvars, fs, histvars>>
  /\ UNCHANGED <<written, k, body_exc>>

\* else: the build goes to options.output_dir
Direct ==
  /\ pc = "mode"
  /\ ~UseTmpDir(options)
  /\ output_dir' = options.output_dir
  /\ pc' = "write_out"
  /\ UNCHANGED <<mainvars, fsvars, histvars>>
  /\ UNCHANGED <<tmp_dir, written, k, exc, body_exc>>

\* what write_distributables(dir, options) may return: an ordered sequence
\* of distinct files under dir
WriteResults(dir) ==
  {[j \in 1..Len(w) |-> <<dir>> \o w[j]] :
     w \in {v \in SeqsUpTo(RelPaths, MaxArtifacts) :
              \A a, b \in 1..Len(v) : v[a] = v[b] => a = b}}

\* the file system after the engine wrote the files w with contents c
EngineWrite(f, w, c) ==
  [p \in AllPaths |-> IF p \in Range(w) THEN c[p] ELSE f[p]]

\* written = bundle.write_distributables(tmp_dir, options), in the try block
WriteTmp ==
  /\ pc = "write_tmp"
  /\ engine_calls' =
       Append(engine_calls, EngineCall("write_distributables", tmp_dir))
  /\ \/ \E w \in WriteResults(tmp_dir) : \E c \in [Range(w) -> Bytes] :
          /\ written' = w
          /\ fs' = EngineWrite(fs, w, c)
          /\ orig' = fs'
          /\ k' = 1
          /\ pc' = "copy"
          /\ UNCHANGED <<exc, body_exc>>
     \/ /\ exc' = "write_distributables"
        /\ body_exc' = "write_distributables"
        /\ pc' = "finally"
        /\ UNCHANGED <<written, fs, orig, k>>
  /\ UNCHANGED <<mainvars, dirs, output_dir, tmp_dir>>
  /\ UNCHANGED <<cleanup_calls, copies, fs0, dirs0>>

\* shutil.move in place of shutil.copy
shutil_move(f, src, dst) == [f EXCEPT ![dst] = f[src], ![src] = Absent]

\* shutil.copy(src, dst)
shutil_copy(f, src, dst) == [f EXCEPT ![dst] = f[src]]

\* distfile_final = os.path.join(output_dir, os.path.basename(distfile))
distfile_final(dir, distfile) == join(dir, basename(distfile))

\* for distfile in written: shutil.copy(distfile, distfile_final); a copy
\* that raises ends the loop and leaves the files as they are
Copy ==
  /\ pc = "copy"
  /\ k <= Len(written)
  /\ \/ /\ fs' = shutil_copy(fs, written[k], distfile_final(output_dir, written[k]))
        /\ copies' = Append(copies, k)
        /\ k' = k + 1
        /\ UNCHANGED <<pc, exc, body_exc>>
     \/ /\ exc' = "copy"
        /\ body_exc' = "copy"
        /\ pc' = "finally"
        /\ UNCHANGED <<fs, copies, k>>
  /\ UNCHANGED <<mainvars, dirs, output_dir, tmp_dir, written>>
  /\ UNCHANGED <<engine_calls, cleanup_calls, fs0, dirs0, orig>>

\* the for loop is exhausted: the try block ends
CopyDone ==
  /\ pc = "copy"
  /\ k > Len(written)
  /\ pc' = "finally"
  /\ UNCHANGED <<mainvars, fsvars, localvars, histvars>>

\* finally: logger.info("Cleaning up ...")
Finally ==
  /\ pc = "finally"
  /\ log' = Append(log, Record("INFO", args[i]))
  /\ pc' = "fix_perms"
  /\ UNCHANGED <<argv, args, options, i, exit_status, handlers, events>>
  /\ UNCHANGED <<fsvars, localvars, histvars>>

\* fix_tree_perms(tmp_dir): an exception raised in the finally block
\* replaces the one in flight and leaves the block at once
FixPerms ==
  /\ pc = "fix_perms"
  /\ cleanup_calls' = Append(cleanup_calls, "fix_tree_perms")
  /\ \/ pc' = "rmtree" /\ UNCHANGED exc
     \/ Raise("fix_tree_perms")
  /\ UNCHANGED <<mainvars, fsvars>>
  /\ UNCHANGED <<output_dir, tmp_dir, written, k, body_exc>>
  /\ UNCHANGED <<engine_calls, copies, fs0, dirs0, orig>>

\* the file system without the tree under directory d
rmtree(f, d) == [p \in AllPaths |-> IF p[1] = d THEN Absent ELSE f[p]]

\* shutil.rmtree(tmp_dir); then the finally block ends: the exception of
\* the try block, if any, is raised again, else process_spec_file returns
Rmtree ==
  /\ pc = "rmtree"
  /\ cleanup_calls' = Append(cleanup_calls, "rmtree")
  /\ \/ /\ fs' = rmtree(fs, tmp_dir)
        /\ dirs' = dirs \ {tmp_dir}
        /\ pc' = IF exc # None THEN "raised" ELSE "returned"
        /\ UNCHANGED exc
     \/ /\ Raise("rmtree")
        /\ UNCHANGED <<fs, dirs>>
  /\ UNCHANGED <<mainvars, output_dir, tmp_dir, written, k, body_exc>>
  /\ UNCHANGED <<engine_calls, copies, fs0, dirs0, orig>>

\* else: bundle.write_distributables(output_dir, options); the engine
\* creates output_dir when it is missing
WriteOut ==
  /\ pc = "write_out"
  /\ engine_calls' =
       Append(engine_calls, EngineCall("write_distributables", output_dir))
  /\ \/ \E w \in WriteResults(output_dir) : \E c \in [Range(w) -> Bytes] :
          /\ fs' = EngineWrite(fs, w, c)
          /\ orig' = fs'
          /\ dirs' = dirs \cup {output_dir}
          /\ pc' = "returned"
          /\ UNCHANGED exc
     \/ /\ Raise("write_distributables")
        /\ dirs' \in {dirs, dirs \cup {output_dir}}
        /\ UNCHANGED <<fs, orig>>
  /\ UNCHANGED <<mainvars, output_dir, tmp_dir, written, k, body_exc>>
  /\ UNCHANGED <<cleanup_calls, copies, fs0, dirs0>>

Next ==
  \/ ParseArgs
  \/ InitLogging
  \/ ReadSpecOk
  \/ ReadSpecFail
  \/ Call
  \/ Return
  \/ Except
  \/ MainReturn
  \/ Construct
  \/ CheckDeps
  \/ NoOp
  \/ MkTemp
  \/ Direct
  \/ WriteTmp
  \/ Copy
  \/ CopyDone
  \/ Finally
  \/ FixPerms
  \/ Rmtree
  \/ WriteOut

Spec == Init /\ [][Next]_vars

TypeOK ==
  /\ pc \in {"parse_args", "logging", "for", "call", "construct", "check_deps",
             "mode", "write_tmp", "copy", "finally", "fix_perms", "rmtree",
             "write_out", "returned", "raised", "exited"}
  /\ exit_status \in {<<>>, <<0>>, <<1>>, <<2>>}
  /\ (pc = "exited") = (exit_status # <<>>)
  /\ dirs \subseteq Dirs
  /\ tmp_dir \in TmpDirNames \cup {None}
  /\ fs \in [AllPaths -> Bytes \cup {Absent, "old"}]

\* ---------------------------------------------------------------- claims

\* process_spec_file has just returned or raised
Finished == pc \in {"returned", "raised"}

\* the paths of the final output location of the ephemeral mode
CwdPaths == {join(getcwd, n) : n \in BaseNames}

\* the number of records of level l logged for spec file f
Logged(l, f) == Cardinality({j \in 1..Len(log) : log[j] = Record(l, f)})

WriteCalls ==
  SelectSeq(engine_calls, LAMBDA c : c.op = "write_distributables")

NoOpOptions ==
  /\ options.output_dir = None
  /\ ~options.build_zip
  /\ ~options.build_exe

\* C1: once mkdtemp has created the ephemeral directory, it no longer
\* exists when process_spec_file returns or raises.
C1_TmpDirRemovedOnEveryExit ==
  (Finished /\ tmp_dir # None) => tmp_dir \notin dirs

\* C2, as claimed: with output_dir unset and both build flags false,
\* process_spec_file returns normally with exactly two warnings, writes
\* nothing, and makes no call of the bundling engine at all.
C2_NoOpBeforeAnyEngineCall ==
  (Finished /\ NoOpOptions) =>
    /\ pc = "returned"
    /\ Logged("WARNING", args[i]) = 2
    /\ fs = fs0 /\ dirs = dirs0 /\ tmp_dir = None
    /\ engine_calls = <<>>

\* C2, amended: with output_dir unset and both build flags false,
\* process_spec_file never creates a directory, writes no file and never
\* calls write_distributables; the only engine calls are the construction of
\* the bundle and check_runtime_dependencies; unless one of these two raises,
\* it returns normally having logged exactly two warnings.
C2_NoOpBeforeAnyBuild ==
  NoOpOptions =>
    /\ fs = fs0 /\ dirs = dirs0 /\ tmp_dir = None
    /\ WriteCalls = <<>>
    /\ cleanup_calls = <<>> /\ copies = <<>>
    /\ pc = "returned" =>
         /\ Logged("WARNING", args[i]) = 2
         /\ engine_calls = <<EngineCall("NativeBundle", None),
                             EngineCall("check_runtime_dependencies", None)>>
    /\ pc = "raised" =>
         /\ exc \in {"NativeBundle", "check_runtime_dependencies"}
         /\ Logged("WARNING", args[i]) = 0

C2_Witness ==
  /\ pc = "returned"
  /\ NoOpOptions
  /\ i = 2

\* the index of the last artifact copied to path p
LastTo(p) ==
  CHOOSE j \in 1..Len(written) :
    /\ distfile_final(getcwd, written[j]) = p
    /\ \A l \in (j + 1)..Len(written) : distfile_final(getcwd, written[l]) # p

Finals == {distfile_final(getcwd, written[j]) : j \in 1..Len(written)}

\* process_spec_file returned from a build in an ephemeral directory
EphemeralSuccess == pc = "returned" /\ tmp_dir # None

\* C3, as claimed: after a run in ephemeral mode in which no step raised,
\* exactly N files, named by the base names of the N artifacts, are in the
\* current directory, each with the content of its original.
C3_ExactlyNFiles ==
  EphemeralSuccess =>
    /\ Cardinality(Finals) = Len(written)
    /\ \A j \in 1..Len(written) :
         fs[distfile_final(getcwd, written[j])] = orig[written[j]]

\* C3, amended: after a run in ephemeral mode in which no step raised, the
\* files written to the current directory are exactly those named by the
\* base names of the N artifacts: N files when the base names are pairwise
\* distinct and fewer otherwise, each with the content of the last artifact
\* of that base name; every other file there is untouched.  The artifacts
\* are copied, not moved: until the cleanup deletes the ephemeral directory
\* every original is still in it.
C3_CopiedNotMoved ==
  /\ EphemeralSuccess =>
       /\ copies = [j \in 1..Len(written) |-> j]
       /\ \A p \in CwdPaths :
            fs[p] = IF p \in Finals THEN orig[written[LastTo(p)]] ELSE fs0[p]
       /\ Cardinality(Finals) = Len(written) =>
            \A j \in 1..Len(written) :
              /\ fs[distfile_final(getcwd, written[j])] = orig[written[j]]
              /\ orig[written[j]] \in Bytes
  /\ (tmp_dir # None /\ pc \in {"copy", "finally", "fix_perms", "rmtree"}) =>
       \A j \in 1..Len(written) :
         /\ fs[written[j]] = orig[written[j]]
         /\ fs[written[j]] \in Bytes

C3_Witness ==
  /\ EphemeralSuccess
  /\ Len(written) = 2
  /\ Cardinality(Finals) = 2
  /\ orig[written[1]] # orig[written[2]]
  /\ fs0[distfile_final(getcwd, written[1])] = "old"

\* the positions in events of the parse failures
ReadFailures == {m \in 1..Len(events) : events[m].ev = "read_fail"}

\* C4: when parsing a spec file fails, exactly one error record is logged
\* for it, the process ends with status 2, process_spec_file is not called
\* for it, and no later spec file is parsed or processed.
C4_ParseErrorIsFatal ==
  \A m \in ReadFailures :
    /\ m = Len(events)
    /\ pc = "exited"
    /\ exit_status = <<2>>
    /\ Logged("ERROR", events[m].file) = 1
    /\ log[Len(log)] = Record("ERROR", events[m].file)
    /\ \A n \in 1..Len(events) :
         /\ events[n].file <= events[m].file
         /\ events[n].file = events[m].file => n = m

C4_Witness ==
  /\ ReadFailures # {}
  /\ \E m \in ReadFailures : events[m].file = 1
  /\ Len(args) > 1

\* some spec file failed to parse, or process_spec_file raised for one
SomeFailure ==
  \E m \in 1..Len(events) : events[m].ev \in {"read_fail", "raise"}

\* every spec file was parsed and processed without error
AllProcessed ==
  \A f \in 1..Len(args) :
    /\ \E m \in 1..Len(events) : events[m] = Event("read_ok", args[f])
    /\ \E m \in 1..Len(events) : events[m] = Event("return", args[f])

ExitStatusByOutcome ==
  /\ (exit_status = <<1>>) = (Len(args) = 0)
  /\ exit_status = <<1>> => (handlers = 0 /\ events = <<>> /\ fs = fs0)
  /\ (exit_status = <<2>>) = SomeFailure
  /\ (exit_status = <<0>>) = (Len(args) >= 1 /\ AllProcessed)

\* C5, as claimed: the exit status of main is 1 exactly when no spec file
\* was given (and then nothing else happened), 2 exactly when a spec file
\* failed to parse or process_spec_file raised, 0 exactly when at least one
\* spec file was given and all were parsed and processed without error.
C5_ExitStatus ==
  pc = "exited" => ExitStatusByOutcome

\* C5, amended: the same, for the runs in which optparse returns from
\* parse_args (with -h/--help it exits with status 0 itself, and on an
\* option error with status 2, whatever spec files were given).
C5_ExitStatusAfterParseArgs ==
  (pc = "exited" /\ argv = "ok") => ExitStatusByOutcome

C5_Witness ==
  /\ pc = "exited"
  /\ argv = "ok"
  /\ exit_status = <<2>>
  /\ events[Len(events)] = Event("raise", 2)

\* C6: a failure of the cleanup does not change the outcome of the try
\* body: if the body raised, that error is the one that leaves
\* process_spec_file; if the body succeeded, process_spec_file returns (so
\* that the exit status is what it is when the cleanup succeeds).
C6_CleanupKeepsOutcome ==
  (Finished /\ tmp_dir # None) =>
    /\ body_exc # None => (pc = "raised" /\ exc = body_exc)
    /\ body_exc = None => pc = "returned"

\* C7: the spec files are handled one at a time in command line order: a
\* file is parsed only right after the one before it was processed without
\* error, process_spec_file is called for it only right after it was parsed,
\* and when process_spec_file raises the error is logged, the process ends
\* with status 2 and nothing happens to any later file.
C7_SequentialFailFast ==
  \A m \in 1..Len(events) :
    LET e == events[m] IN
    /\ e.ev \in {"read_ok", "read_fail"} =>
         /\ IF e.file = 1 THEN m = 1
            ELSE m > 1 /\ events[m - 1] = Event("return", e.file - 1)
         /\ \A f \in 1..(e.file - 1) :
              /\ \E n \in 1..(m - 1) : events[n] = Event("read_ok", f)
              /\ \E n \in 1..(m - 1) : events[n] = Event("return", f)
    /\ e.ev = "call" => (m > 1 /\ events[m - 1] = Event("read_ok", e.file))
    /\ e.ev \in {"return", "raise"} =>
         (m > 1 /\ events[m - 1] = Event("call", e.file))
    /\ e.ev = "raise" =>
         /\ m = Len(events)
         /\ pc = "exited"
         /\ exit_status = <<2>>
         /\ Logged("ERROR", e.file) = 1
         /\ log[Len(log)] = Record("ERROR", e.file)

C7_Witness ==
  /\ Len(args) = 2
  /\ Len(events) > 0
  /\ events[Len(events)] = Event("raise", 1)

\* what C8 says of a run of process_spec_file
DirectFrame ==
  /\ tmp_dir = None
  /\ dirs \subseteq {options.output_dir}
  /\ copies = <<>>
  /\ \A p \in CwdPaths : fs[p] = fs0[p]
  /\ cleanup_calls = <<>>
  /\ Len(WriteCalls) <= 1
  /\ \A j \in 1..Len(WriteCalls) : WriteCalls[j].dir = options.output_dir
  /\ pc = "returned" => Len(WriteCalls) = 1
  /\ Finished => fs = orig

C9_DeleteAlwaysAttempted ==
  (Finished /\ tmp_dir # None) =>
    cleanup_calls = <<"fix_tree_perms", "rmtree">>

\* the file system after the first n artifacts of w were copied to dir
RECURSIVE CopyAll(_, _, _, _)
CopyAll(f, w, dir, n) ==
  IF n = 0 THEN f
  ELSE shutil_copy(CopyAll(f, w, dir, n - 1), w[n], distfile_final(dir, w[n]))

\* C10: when the copy of the k-th artifact fails, the artifacts before it
\* remain in the current directory and none after it is copied, the error
\* of the copy leaves process_spec_file, and the ephemeral directory is
\* cleaned up; when write_distributables returns no artifact, nothing is
\* copied and the cleanup runs.
C10_CopyFailure ==
  /\ (Finished /\ body_exc = "copy") =>
       /\ copies = [j \in 1..(k - 1) |-> j]
       /\ \A p \in CwdPaths : fs[p] = CopyAll(orig, written, getcwd, k - 1)[p]
       /\ pc = "raised" /\ exc = "copy"
       /\ cleanup_calls = <<"fix_tree_perms", "rmtree">>
       /\ tmp_dir \notin dirs
  /\ (Finished /\ tmp_dir # None /\ body_exc = None /\ written = <<>>) =>
       /\ copies = <<>>
       /\ \A p \in CwdPaths : fs[p] = fs0[p]
       /\ cleanup_calls # <<>>

====
